---- MODULE Spec2Model ----
(***************************************************************************)
(* Model of the question service of src/main.rs: the Store (a HashMap      *)
(* behind one tokio RwLock), the two handlers get_questions and            *)
(* add_question, extract_pagination and the boundary translator            *)
(* return_error.                                                           *)
(*                                                                         *)
(* Every request is an independent task of the multi-threaded runtime      *)
(* (#[tokio::main]), so the steps of different requests interleave freely. *)
(* A step of the model is a stretch of a handler that touches at most one  *)
(* shared object (the lock or the map).                                    *)
(***************************************************************************)
EXTENDS Integers, Sequences, FiniteSets, TLC

\* ------------------------------------------------------------------ bounds

\* Number of requests the server accepts.
NumReqs == 3
\* Largest number of questions the bundled questions.json seeds the map with.
MaxSeed == 1
\* Longest query-parameter value (in characters) fed to extract_pagination.
MaxLen == 2

Reqs == 1..NumReqs
NoReq == 0

\* ------------------------------------------------------------------ data

\* QuestionId(String): the ids in use, in the order the seed file holds them.
QuestionIds == <<"q3", "q1", "q2">>
Ids == {QuestionIds[i] : i \in 1..Len(QuestionIds)}

\* Option<Vec<String>>.
None == "None"
TagValues == {None, "Some([rust])"}

\* struct Question { id, title, content, tags }.
Question == [id : Ids, title : {"T"}, content : {"C"}, tags : TagValues]

\* HashMap<QuestionId, Question>: the table of (key, value) entries, in the
\* order its iterator walks them. The order is the hasher's: it is not known,
\* and it stays as it is for as long as no key is added.
Entry == [key : Ids, value : Question]
Entries(table) == {table[i] : i \in 1..Len(table)}
Tables(entries) ==
    {t \in [1..Cardinality(entries) -> entries] : \A i, j \in 1..Cardinality(entries) : t[i] = t[j] => i = j}

\* The questions the seed file holds: the first n ids, without tags.
SeedQuestion(i) == [id |-> QuestionIds[i], title |-> "T", content |-> "C", tags |-> None]
SeedStore(n) == {[key |-> QuestionIds[i], value |-> SeedQuestion(i)] : i \in 1..n}

\* ------------------------------------------------------------ pure functions

DigitChars == <<"0", "1", "2", "3", "4", "5", "6", "7", "8", "9">>
Digits == {DigitChars[i] : i \in 1..Len(DigitChars)}
\* char::to_digit(10)
DigitVal(c) == (CHOOSE i \in 1..Len(DigitChars) : DigitChars[i] = c) - 1

RECURSIVE ParseDigits(_, _)
\* Accumulates the decimal digits of s onto acc; "InvalidDigit" at the first
\* character that is no digit.
ParseDigits(s, acc) ==
    IF s = <<>> THEN [ok |-> TRUE, val |-> acc]
    ELSE IF Head(s) \notin Digits THEN [ok |-> FALSE, kind |-> "InvalidDigit"]
    ELSE ParseDigits(Tail(s), acc * 10 + DigitVal(Head(s)))

\* str::parse::<usize>: empty input is an error, a lone sign is an error, one
\* leading "+" is accepted, "-" is never accepted for an unsigned type.
\* (PosOverflow needs twenty digits and is outside MaxLen.)
ParseUsize(s) ==
    IF s = <<>> THEN [ok |-> FALSE, kind |-> "Empty"]
    ELSE IF s = <<"+">> \/ s = <<"-">> THEN [ok |-> FALSE, kind |-> "InvalidDigit"]
    ELSE IF Head(s) = "+" THEN ParseDigits(Tail(s), 0)
    ELSE ParseDigits(s, 0)

MissingParameters == [tag |-> "MissingParameters"]
ParseError(kind) == [tag |-> "ParseError", kind |-> kind]

\* extract_pagination that falls back on an empty range when a key is absent.
extract_pagination_or_default(params) ==
    IF "start" \in DOMAIN params /\ "end" \in DOMAIN params
    THEN LET s == ParseUsize(params["start"])
             e == ParseUsize(params["end"])
         IN  IF ~s.ok THEN [ok |-> FALSE, err |-> ParseError(s.kind)]
             ELSE IF ~e.ok THEN [ok |-> FALSE, err |-> ParseError(e.kind)]
             ELSE [ok |-> TRUE, start |-> s.val, end |-> e.val]
    ELSE [ok |-> TRUE, start |-> 0, end |-> 0]

\* extract_pagination with the two fields evaluated end first.
extract_pagination_end_first(params) ==
    IF "start" \in DOMAIN params /\ "end" \in DOMAIN params
    THEN LET s == ParseUsize(params["start"])
             e == ParseUsize(params["end"])
         IN  IF ~e.ok THEN [ok |-> FALSE, err |-> ParseError(e.kind)]
             ELSE IF ~s.ok THEN [ok |-> FALSE, err |-> ParseError(s.kind)]
             ELSE [ok |-> TRUE, start |-> s.val, end |-> e.val]
    ELSE [ok |-> FALSE, err |-> MissingParameters]

\* fn extract_pagination(params) -> Result<Pagination, Error>
extract_pagination(params) ==
    IF "start" \in DOMAIN params /\ "end" \in DOMAIN params
    THEN LET s == ParseUsize(params["start"])
             e == ParseUsize(params["end"])
         IN  IF ~s.ok THEN [ok |-> FALSE, err |-> ParseError(s.kind)]
             ELSE IF ~e.ok THEN [ok |-> FALSE, err |-> ParseError(e.kind)]
             ELSE [ok |-> TRUE, start |-> s.val, end |-> e.val]
    ELSE [ok |-> FALSE, err |-> MissingParameters]

\* impl Display for Error
Display(err) ==
    IF err.tag = "ParseError" THEN <<"Cannot parse parameter: ", err.kind>>
    ELSE <<"Missing parameter">>

\* A translator that answers every rejection as it answers Error.
return_error_always_416(r) ==
    IF r.cause = "Error" THEN [status |-> 416, text |-> Display(r.err)]
    ELSE [status |-> 416, text |-> <<"Route not found">>]

\* async fn return_error(r: Rejection): the first cause found decides.
return_error(r) ==
    IF r.cause = "Error" THEN [status |-> 416, text |-> Display(r.err)]
    ELSE IF r.cause = "CorsForbidden" THEN [status |-> 403, text |-> <<"CORS request forbidden">>]
    ELSE [status |-> 404, text |-> <<"Route not found">>]

\* warp::body::json() into Question: id, title and content are required,
\* tags is an Option and may be omitted or null.
BodyDeserializes(body) == {"id", "title", "content"} \subseteq DOMAIN body
Deserialize(body) ==
    [id |-> body["id"], title |-> body["title"], content |-> body["content"],
     tags |-> IF "tags" \in DOMAIN body THEN body["tags"] ELSE None]

\* An insert that starts the map afresh and so loses every other entry.
insert_into_new_map(map, key, value) == {<<[key |-> key, value |-> value]>>}

\* An insert that keeps the entry already there (entry(key).or_insert(value)).
insert_if_absent(map, key, value) ==
    IF \E e \in Entries(map) : e.key = key THEN {map}
    ELSE Tables(Entries(map) \cup {[key |-> key, value |-> value]})

\* HashMap::insert(key, value), as the set of tables it can leave: the value
\* under a key that is present is replaced where it is; a new key goes where
\* its hash puts it, and the table may be rehashed.
insert(map, key, value) ==
    IF \E e \in Entries(map) : e.key = key
    THEN {[i \in 1..Len(map) |->
             IF map[i].key = key THEN [key |-> key, value |-> value] ELSE map[i]]}
    ELSE Tables(Entries(map) \cup {[key |-> key, value |-> value]})

\* A range check that forgets start <= end.
SliceInRange_end_only(res, start, end) == end <= Len(res)

\* A slice that always begins at the first element.
Slice_from_first(res, start, end) == SubSeq(res, 1, end)

\* &res[start..end]: a fault unless start <= end <= res.len().
SliceInRange(res, start, end) == start <= end /\ end <= Len(res)
Slice(res, start, end) == SubSeq(res, start + 1, end)

\* ------------------------------------------------------------------ inputs

Empty == << >>

\* Query strings of GET /questions: no parameters, ranges inside and outside
\* a listing, and the two ways extract_pagination fails.
ListParams ==
    { Empty,
      [start |-> <<"1">>, end |-> <<"2">>],
      [start |-> <<"2">>, end |-> <<"1">>],
      [start |-> <<"a">>, end |-> <<"1">>],
      [start |-> <<"0">>] }

\* Bodies of POST /questions: with and without tags, and one without title.
Bodies ==
    [id : {"q1", "q2"}, title : {"T"}, content : {"C"}]
    \cup [id : {"q1"}, title : {"T"}, content : {"C"}, tags : {"Some([rust])"}]
    \cup [id : {"q1"}, content : {"C"}]

\* ------------------------------------------------------------------- state

VARIABLES
    questions,  \* Store.questions: the table of the map
    readers,    \* requests holding a read guard
    writer,     \* the request holding the write guard, or NoReq
    waiters,    \* requests queued on the lock, first come first served
    pc,         \* where each request is
    kind,       \* "list" or "add"
    params,     \* a list request's query parameters
    pagination, \* what extract_pagination returned for them
    body,       \* an add request's JSON body
    question,   \* the Question it deserialized to
    res,        \* a list request's Vec<Question>, as collected so far
    view,       \* the table as it was when a reader was given the guard it holds
    reply       \* the response sent, [status |-> 0] while there is none

vars == <<questions, readers, writer, waiters, pc, kind, params, pagination, body, question, res, view, reply>>

NoReply == [status |-> 0]
NoQuestion == [id |-> "none"]
NoPagination == [ok |-> FALSE, err |-> [tag |-> "none"]]

\* Store::new() has run and no request has arrived.
InitStore ==
    /\ \E n \in 0..MaxSeed : questions \in Tables(SeedStore(n))
    /\ readers = {}
    /\ writer = NoReq
    /\ waiters = << >>
    /\ pc = [r \in Reqs |-> "idle"]
    /\ kind = [r \in Reqs |-> "none"]
    /\ pagination = [r \in Reqs |-> NoPagination]
    /\ body = [r \in Reqs |-> Empty]
    /\ question = [r \in Reqs |-> NoQuestion]
    /\ res = [r \in Reqs |-> << >>]
    /\ view = [r \in Reqs |-> << >>]
    /\ reply = [r \in Reqs |-> NoReply]

Init ==
    /\ InitStore
    /\ params = [r \in Reqs |-> Empty]

\* -------------------------------------------------------------------- lock

\* A read() that does not look at the write guard.
CanReadIgnoringWriter == waiters = << >>

\* RwLock::read() / write() polled once: the guard is given at once when the
\* lock is free for it and nobody is queued, else the request queues.
CanRead == writer = NoReq /\ waiters = << >>
CanWrite == writer = NoReq /\ readers = {} /\ waiters = << >>

\* A release that wakes nobody.
GrantedNobody(q, rd, wr) == {}

RECURSIVE Granted(_, _, _)
\* The requests at the head of queue q that a release hands the lock to, given
\* the guards rd and wr still out: readers up to the first writer, or one writer.
Granted(q, rd, wr) ==
    IF q = << >> \/ wr # NoReq THEN {}
    ELSE IF kind[Head(q)] = "list" THEN {Head(q)} \cup Granted(Tail(q), rd \cup {Head(q)}, wr)
    ELSE IF rd = {} THEN {Head(q)}
    ELSE {}

RECURSIVE DropGranted(_, _)
DropGranted(q, g) ==
    IF q = << >> THEN q
    ELSE IF Head(q) \in g THEN DropGranted(Tail(q), g)
    ELSE q

\* Where a request goes on once it has dropped its guard.
AfterRelease(r) ==
    IF kind[r] = "list" /\ DOMAIN params[r] # {} THEN "slice" ELSE "done"

\* A handler that goes on without dropping its guard.
ReleaseKeepsGuard(r) ==
    /\ pc' = [pc EXCEPT ![r] = AfterRelease(r)]
    /\ UNCHANGED <<readers, writer, waiters, view>>

\* Dropping a guard: the permits go to the queue in order, and the requests
\* that now hold a guard are woken.
Release(r) ==
    LET rd == readers \ {r}
        wr == IF writer = r THEN NoReq ELSE writer
        g == Granted(waiters, rd, wr)
        gr == {x \in g : kind[x] = "list"}
        gw == {x \in g : kind[x] = "add"}
    IN  /\ readers' = rd \cup gr
        /\ writer' = IF gw = {} THEN wr ELSE CHOOSE x \in gw : TRUE
        /\ waiters' = DropGranted(waiters, g)
        /\ view' = [x \in Reqs |-> IF x \in gr THEN questions' ELSE IF x = r THEN << >> ELSE view[x]]
        /\ pc' = [x \in Reqs |->
                    IF x = r THEN AfterRelease(r)
                    ELSE IF x \in gr THEN "collect"
                    ELSE IF x \in gw THEN "insert"
                    ELSE pc[x]]

\* ---------------------------------------------------------- get_questions

IsEmpty(p) == DOMAIN p = {}

\* Requests are numbered in the order the server accepts them.
Arrives(r) == pc[r] = "idle" /\ \A x \in 1..(r - 1) : pc[x] # "idle"

\* GET /questions arrives: the handler runs to its first suspension point.
\* A pagination failure returns Err before store.questions is touched; else
\* read() is polled.
GetQuestions(r, p) ==
    /\ Arrives(r)
    /\ kind' = [kind EXCEPT ![r] = "list"]
    /\ params' = [params EXCEPT ![r] = p]
    /\ pagination' = IF IsEmpty(p) THEN pagination
                     ELSE [pagination EXCEPT ![r] = extract_pagination(p)]
    /\ IF ~IsEmpty(p) /\ ~pagination'[r].ok
       THEN /\ pc' = [pc EXCEPT ![r] = "done"]
            /\ reply' = [reply EXCEPT ![r] =
                           return_error([cause |-> "Error", err |-> pagination'[r].err])]
            /\ UNCHANGED <<readers, waiters, view>>
       ELSE /\ reply' = reply
            /\ IF CanRead
               THEN /\ readers' = readers \cup {r}
                    /\ view' = [view EXCEPT ![r] = questions]
                    /\ pc' = [pc EXCEPT ![r] = "collect"]
                    /\ waiters' = waiters
               ELSE /\ waiters' = Append(waiters, r)
                    /\ pc' = [pc EXCEPT ![r] = "wait"]
                    /\ UNCHANGED <<readers, view>>
    /\ UNCHANGED <<questions, writer, body, question, res>>

\* values() has more to yield to collect().
HasNext(r) == Len(res[r]) < Len(questions)

\* .values().cloned(): the next value of the table is cloned into the Vec.
CollectNext(r) ==
    /\ pc[r] = "collect"
    /\ HasNext(r)
    /\ res' = [res EXCEPT ![r] = Append(res[r], questions[Len(res[r]) + 1].value)]
    /\ UNCHANGED <<questions, readers, writer, waiters, pc, kind, params, pagination, body, question, view, reply>>

\* .collect() is complete and the read guard, a temporary of the statement, is
\* dropped. Without parameters the Vec is the reply and the handler is over.
CollectDone(r) ==
    /\ pc[r] = "collect"
    /\ ~HasNext(r)
    /\ questions' = questions
    /\ Release(r)
    /\ reply' = IF IsEmpty(params[r])
                THEN [reply EXCEPT ![r] = [status |-> 200, json |-> res[r]]]
                ELSE reply
    /\ res' = IF IsEmpty(params[r]) THEN [res EXCEPT ![r] = << >>] ELSE res
    /\ UNCHANGED <<kind, params, pagination, body, question>>

\* &res[pagination.start..pagination.end]: the reply, or a panic of the task.
\* Either way the handler is over and its Vec is dropped.
SliceReply(r) ==
    /\ pc[r] = "slice"
    /\ IF SliceInRange(res[r], pagination[r].start, pagination[r].end)
       THEN /\ pc' = [pc EXCEPT ![r] = "done"]
            /\ reply' = [reply EXCEPT ![r] =
                 [status |-> 200, json |-> Slice(res[r], pagination[r].start, pagination[r].end)]]
       ELSE /\ pc' = [pc EXCEPT ![r] = "panicked"]
            /\ reply' = reply
    /\ res' = [res EXCEPT ![r] = << >>]
    /\ UNCHANGED <<questions, readers, writer, waiters, kind, params, pagination, body, question, view>>

\* ----------------------------------------------------------- add_question

\* POST /questions arrives: warp::body::json() rejects a body that is no
\* Question and return_error answers; else the handler polls write().
AddQuestion(r, b) ==
    /\ Arrives(r)
    /\ kind' = [kind EXCEPT ![r] = "add"]
    /\ body' = [body EXCEPT ![r] = b]
    /\ IF ~BodyDeserializes(b)
       THEN /\ pc' = [pc EXCEPT ![r] = "done"]
            /\ reply' = [reply EXCEPT ![r] = return_error([cause |-> "BodyDeserializeError"])]
            /\ UNCHANGED <<question, writer, waiters>>
       ELSE /\ question' = [question EXCEPT ![r] = Deserialize(b)]
            /\ reply' = reply
            /\ IF CanWrite
               THEN /\ writer' = r
                    /\ pc' = [pc EXCEPT ![r] = "insert"]
                    /\ waiters' = waiters
               ELSE /\ waiters' = Append(waiters, r)
                    /\ pc' = [pc EXCEPT ![r] = "wait"]
                    /\ writer' = writer
    /\ UNCHANGED <<questions, readers, params, pagination, res, view>>

\* .insert(question.id.clone(), question) under the write guard.
Insert(r) ==
    /\ pc[r] = "insert"
    /\ questions' \in insert(questions, question[r].id, question[r])
    /\ pc' = [pc EXCEPT ![r] = "unlock"]
    /\ UNCHANGED <<readers, writer, waiters, kind, params, pagination, body, question, res, view, reply>>

\* The write guard is dropped at the end of the statement; "Question added".
Unlock(r) ==
    /\ pc[r] = "unlock"
    /\ questions' = questions
    /\ Release(r)
    /\ reply' = [reply EXCEPT ![r] = [status |-> 200, text |-> <<"Question added">>]]
    /\ UNCHANGED <<kind, params, pagination, body, question, res>>

\* A request arrives, as a client chooses.
Arrive(r) ==
    \/ \E p \in ListParams : GetQuestions(r, p)
    \/ \E b \in Bodies : AddQuestion(r, b)

\* The runtime polls the task of a request that has arrived.
Run(r) ==
    \/ CollectNext(r)
    \/ CollectDone(r)
    \/ SliceReply(r)
    \/ Insert(r)
    \/ Unlock(r)

Next == \E r \in Reqs : Arrive(r) \/ Run(r)

Spec == Init /\ [][Next]_vars

\* The runtime polls every task that can run; clients owe the server nothing.
FairSpec == Spec /\ \A r \in Reqs : WF_vars(Run(r))

\* ------------------------------------------- extract_pagination on its own

\* The characters query-parameter values are made of here.
Chars == {"0", "1", "3", "a", "+", "-"}

RECURSIVE Strings(_)
Strings(n) ==
    IF n = 0 THEN {<< >>}
    ELSE Strings(n - 1) \cup {Append(s, c) : s \in {t \in Strings(n - 1) : Len(t) = n - 1}, c \in Chars}

\* HashMap<String, String>: any of start and end, with or without another key.
ParamMaps ==
    LET Ranges == UNION {[D -> Strings(MaxLen)] : D \in SUBSET {"start", "end"}}
        Others == {Empty, [limit |-> <<"1">>]}
    IN  {a @@ b : a \in Ranges, b \in Others}

\* extract_pagination called on the parameters of request 1, whatever they are.
InitPagination ==
    /\ InitStore
    /\ \E p \in ParamMaps : params = [r \in Reqs |-> IF r = 1 THEN p ELSE Empty]

ExtractPagination ==
    /\ pc[1] = "idle"
    /\ pagination' = [pagination EXCEPT ![1] = extract_pagination(params[1])]
    /\ pc' = [pc EXCEPT ![1] = "done"]
    /\ UNCHANGED <<questions, readers, writer, waiters, kind, params, body, question, res, view, reply>>

SpecPagination == InitPagination /\ [][ExtractPagination]_vars

TypeOK ==
    /\ questions \in Seq(Entry)
    /\ readers \subseteq Reqs
    /\ writer \in Reqs \cup {NoReq}

\* ============================================================= properties

\* What a decimal numeral is, and its value, stated apart from ParseUsize.
Unsigned(s) == IF s # << >> /\ Head(s) = "+" THEN Tail(s) ELSE s
IsNumeral(s) ==
    /\ Unsigned(s) # << >>
    /\ \A i \in 1..Len(Unsigned(s)) : Unsigned(s)[i] \in Digits
RECURSIVE Pow10(_)
Pow10(n) == IF n = 0 THEN 1 ELSE 10 * Pow10(n - 1)
RECURSIVE PlaceSum(_, _)
PlaceSum(u, i) ==
    IF i > Len(u) THEN 0
    ELSE DigitVal(u[i]) * Pow10(Len(u) - i) + PlaceSum(u, i + 1)
NumeralValue(s) == PlaceSum(Unsigned(s), 1)
ParseFault(s) == IF s = << >> THEN "Empty" ELSE "InvalidDigit"

Extracted == pc[1] = "done" /\ kind[1] = "none"

\* C5: extract_pagination returns MissingParameters exactly when start or end
\* is absent, whatever else the mapping holds; ParseError exactly when both
\* are present and one is no numeral, the fault being that of start when
\* start is at fault; and otherwise the two values as parsed, start <= end or
\* not.
C5_ExtractPagination ==
    Extracted =>
        LET p == params[1]
            got == pagination[1]
            both == "start" \in DOMAIN p /\ "end" \in DOMAIN p
        IN  /\ (~got.ok /\ got.err = MissingParameters) <=> ~both
            /\ (~got.ok /\ got.err.tag = "ParseError")
                  <=> (both /\ (~IsNumeral(p["start"]) \/ ~IsNumeral(p["end"])))
            /\ (both /\ ~IsNumeral(p["start"]))
                  => got = [ok |-> FALSE, err |-> ParseError(ParseFault(p["start"]))]
            /\ (both /\ IsNumeral(p["start"]) /\ ~IsNumeral(p["end"]))
                  => got = [ok |-> FALSE, err |-> ParseError(ParseFault(p["end"]))]
            /\ (both /\ IsNumeral(p["start"]) /\ IsNumeral(p["end"]))
                  => got = [ok |-> TRUE, start |-> NumeralValue(p["start"]),
                                         end |-> NumeralValue(p["end"])]

\* A range is returned with start > end, beside a key that is not looked at.
C5_Witness ==
    /\ Extracted
    /\ pagination[1].ok
    /\ pagination[1].start > pagination[1].end
    /\ "limit" \in DOMAIN params[1]

\* ---------------------------------------------------------------- C1 .. C3

EntryOf(q) == [key |-> q.id, value |-> q]
Inserts(r) == pc[r] = "insert" /\ pc'[r] # "insert"
EndsCollect(r) == pc[r] = "collect" /\ pc'[r] # "collect"
Added(r) == kind[r] = "add" /\ pc[r] = "done" /\ reply[r].status = 200

\* While a request collects, it holds a read guard, the map is what it was
\* when the guard was given, and what is collected are the first values of
\* that map, each once.
C1_Collecting ==
    \A r \in Reqs : pc[r] = "collect" =>
        /\ r \in readers
        /\ questions = view[r]
        /\ Len(res[r]) <= Len(view[r])
        /\ \A i \in 1..Len(res[r]) : res[r][i] = view[r][i].value

\* C1: a listing never sees part of an insert: no write guard is out while a
\* read guard is, an insert happens under the write guard only, and the
\* snapshot a list request ends up with is the whole map as it stood, unchanged,
\* for as long as the request held its one read guard.
C1_SnapshotNotTorn ==
    /\ [](C1_Collecting /\ (writer # NoReq => readers = {}))
    /\ [][\A r \in Reqs :
            /\ Inserts(r) => (writer = r /\ readers = {})
            /\ EndsCollect(r) => (Len(res[r]) = Len(view[r]) /\ questions' = questions)
         ]_vars

\* A list request is collecting a non-empty map while an add waits for the lock.
C1_Witness ==
    \E r, a \in Reqs :
        /\ pc[r] = "collect" /\ res[r] # << >>
        /\ kind[a] = "add" /\ pc[a] = "wait"

\* C2: once two add requests with distinct ids have both completed, each one's
\* question is in the map under its id, as long as no third request inserted
\* under either id; and an insert leaves the entries of every other id as
\* they were.
C2_NoLostUpdate ==
    /\ [](\A a, b \in Reqs :
            ( /\ a # b /\ Added(a) /\ Added(b)
              /\ question[a].id # question[b].id
              /\ \A c \in Reqs \ {a, b} :
                    (kind[c] = "add" /\ question[c].id \in {question[a].id, question[b].id})
                        => pc[c] \in {"wait", "insert"} )
            => (EntryOf(question[a]) \in Entries(questions)
                /\ EntryOf(question[b]) \in Entries(questions)))
    /\ [][\A r \in Reqs : Inserts(r) =>
              {e \in Entries(questions') : e.key # question[r].id}
                  = {e \in Entries(questions) : e.key # question[r].id}]_vars

\* Two adds with distinct ids are both done, beside an entry of a third id.
C2_Witness ==
    \E a, b \in Reqs :
        /\ Added(a) /\ Added(b)
        /\ question[a].id # question[b].id
        /\ EntryOf(question[a]) \in Entries(questions)
        /\ EntryOf(question[b]) \in Entries(questions)
        /\ \E e \in Entries(questions) : e.key \notin {question[a].id, question[b].id}

\* C3: the map holds at most one entry per id, filed under the id of its
\* question; an insert leaves under its id the question inserted and nothing
\* else; and a listing holds, for every id, exactly what the map holds for it.
C3_OnePerId ==
    /\ [](\A i, j \in 1..Len(questions) :
            /\ questions[i].key = questions[j].key => i = j
            /\ questions[i].key = questions[i].value.id)
    /\ [][\A r \in Reqs :
            /\ Inserts(r) =>
                 {i \in 1..Len(questions') : questions'[i].key = question[r].id}
                    = {i \in 1..Len(questions') : questions'[i] = EntryOf(question[r])}
                 /\ EntryOf(question[r]) \in Entries(questions')
            /\ (EndsCollect(r) /\ IsEmpty(params[r])) =>
                 \A id \in Ids :
                    /\ Cardinality({i \in 1..Len(reply'[r].json) : reply'[r].json[i].id = id}) <= 1
                    /\ {reply'[r].json[i] : i \in {j \in 1..Len(reply'[r].json) : reply'[r].json[j].id = id}}
                          = {e.value : e \in {f \in Entries(questions) : f.key = id}}
         ]_vars

\* Two adds with one id and different questions are done; the map holds the
\* one entry and a full listing of it has been sent.
C3_Witness ==
    \E a, b, r \in Reqs :
        /\ a # b /\ Added(a) /\ Added(b)
        /\ question[a].id = question[b].id /\ question[a] # question[b]
        /\ Cardinality({i \in 1..Len(questions) : questions[i].key = question[a].id}) = 1
        /\ kind[r] = "list" /\ IsEmpty(params[r]) /\ reply[r].status = 200
        /\ \E i \in 1..Len(reply[r].json) : reply[r].json[i].id = question[a].id

\* ---------------------------------------------------------------------- C4

HoldsGuard(r) == r \in readers \/ writer = r
Queued(r) == \E i \in 1..Len(waiters) : waiters[i] = r
Ended(r) == pc[r] \in {"done", "panicked"}
Pending == {r \in Reqs : pc[r] # "idle" /\ ~Ended(r)}

\* C4: no request holds a guard while it waits for the lock; whenever requests
\* are pending one of them can take a step; a wait ends only with the guard
\* in hand and the guard is given up only on the way to the slice or the reply;
\* and, the runtime being fair, again and again no request is pending: every
\* request that waited has come to its end (its reply, or the fault of an
\* out-of-range slice, but never a wait that lasts).
C4_NoDeadlock ==
    /\ [](\A r \in Reqs : /\ HoldsGuard(r) => (~Queued(r) /\ pc[r] # "wait")
                          /\ pc[r] = "wait" <=> Queued(r))
    /\ [](Pending # {} => \E r \in Pending : ENABLED Run(r))
    /\ [][\A r \in Reqs :
            /\ (pc[r] = "wait" /\ pc'[r] # "wait") => HoldsGuard(r)'
            /\ (HoldsGuard(r) /\ ~HoldsGuard(r)') => pc'[r] \in {"slice", "done"}
         ]_vars
    /\ []<>(Pending = {})

\* A reader queues behind a writer that queues behind a reader.
C4_Witness ==
    /\ Len(waiters) = 2
    /\ kind[waiters[1]] = "add" /\ kind[waiters[2]] = "list"
    /\ readers # {}

\* ---------------------------------------------------------------------- C6

HasRange(p) == "start" \in DOMAIN p /\ "end" \in DOMAIN p
PaginationFails(p) == ~HasRange(p) \/ ~IsNumeral(p["start"]) \/ ~IsNumeral(p["end"])
FailedList(r) == kind[r] = "list" /\ ~IsEmpty(params[r]) /\ PaginationFails(params[r])

\* C6: a list request with parameters that do not make a range is over as
\* soon as it has arrived, answered with its error (416 and the error's text):
\* it never holds or waits for the lock and collects nothing, and its arrival
\* leaves the map and the lock as they were.
C6_FailsBeforeStore ==
    /\ [](\A r \in Reqs : FailedList(r) =>
            /\ pc[r] = "done"
            /\ ~pagination[r].ok
            /\ pagination[r].err.tag =
                  (IF HasRange(params[r]) THEN "ParseError" ELSE "MissingParameters")
            /\ reply[r] = [status |-> 416, text |-> Display(pagination[r].err)]
            /\ ~HoldsGuard(r) /\ ~Queued(r)
            /\ res[r] = << >> /\ view[r] = << >>)
    /\ [][\A r \in Reqs : (pc[r] = "idle" /\ FailedList(r)') =>
            UNCHANGED <<questions, readers, writer, waiters>>]_vars

\* One request failed on a missing key and one on a malformed number, while
\* a writer holds the lock.
C6_Witness ==
    /\ \E r \in Reqs : FailedList(r) /\ pagination[r].err.tag = "MissingParameters"
    /\ \E r \in Reqs : FailedList(r) /\ pagination[r].err.tag = "ParseError"
    /\ writer # NoReq

\* ---------------------------------------------------------------------- C7

RangeStart(r) == NumeralValue(params[r]["start"])
RangeEnd(r) == NumeralValue(params[r]["end"])
Slices(r) == pc[r] = "slice" /\ pc'[r] # "slice"

\* C7: without parameters the reply is the snapshot collected under the read
\* guard, which is every question of the map; with a range start <= end <=
\* length it is the end - start questions at positions start (included) to
\* end (excluded) of the one snapshot collected; the map is left as it was.
C7_ListReply ==
    [][\A r \in Reqs :
        /\ (EndsCollect(r) /\ IsEmpty(params[r])) =>
              /\ r \in readers
              /\ reply'[r] = [status |-> 200, json |-> res[r]]
              /\ Len(res[r]) = Len(questions)
              /\ \A i \in 1..Len(questions) : res[r][i] = questions[i].value
              /\ questions' = questions
        /\ (EndsCollect(r) /\ ~IsEmpty(params[r])) =>
              /\ r \in readers
              /\ res'[r] = res[r]
              /\ Len(res[r]) = Len(questions)
              /\ \A i \in 1..Len(questions) : res[r][i] = questions[i].value
              /\ questions' = questions
        /\ (Slices(r) /\ RangeStart(r) <= RangeEnd(r) /\ RangeEnd(r) <= Len(res[r])) =>
              /\ reply'[r].status = 200
              /\ Len(reply'[r].json) = RangeEnd(r) - RangeStart(r)
              /\ \A i \in 1..Len(reply'[r].json) :
                    reply'[r].json[i] = res[r][RangeStart(r) + i]
              /\ questions' = questions
      ]_vars

\* A range that begins past the first question was answered with one question,
\* and a request without parameters with at least two.
C7_Witness ==
    /\ \E r \in Reqs :
          /\ kind[r] = "list" /\ ~IsEmpty(params[r]) /\ pc[r] = "done"
          /\ reply[r].status = 200 /\ pagination[r].start = 1 /\ Len(reply[r].json) = 1
    /\ \E r \in Reqs :
          /\ kind[r] = "list" /\ IsEmpty(params[r]) /\ pc[r] = "done"
          /\ Len(reply[r].json) >= 2

\* ---------------------------------------------------------------------- C8

\* C8: with a range that parsed, end > length or start > end makes the slice
\* fault: the request ends there with no reply and no Error value, and none
\* comes later.
C8_SliceFaults ==
    /\ [](\A r \in Reqs : pc[r] = "panicked" =>
            (reply[r] = NoReply /\ pagination[r].ok /\ ~PaginationFails(params[r])))
    /\ [][\A r \in Reqs :
            /\ (Slices(r) /\ (RangeEnd(r) > Len(res[r]) \/ RangeStart(r) > RangeEnd(r)))
                  => (pc'[r] = "panicked" /\ reply'[r] = NoReply)
            /\ pc[r] = "panicked" => (pc'[r] = "panicked" /\ reply'[r] = NoReply)
         ]_vars

\* One request faulted on start > end although the map holds enough questions
\* for end, and one on end > length.
C8_Witness ==
    /\ \E r \in Reqs : /\ pc[r] = "panicked"
                       /\ pagination[r].start > pagination[r].end
                       /\ pagination[r].end <= Len(questions)
    /\ \E r \in Reqs : pc[r] = "panicked" /\ pagination[r].start <= pagination[r].end

\* ---------------------------------------------------------------------- C9

BodyRejected(r) ==
    kind[r] = "add" /\ ~({"id", "title", "content"} \subseteq DOMAIN body[r])
BodyAccepted(r) ==
    kind[r] = "add" /\ {"id", "title", "content"} \subseteq DOMAIN body[r]

\* C9 as the table of the HTTP surface has it: a body that is no Question is
\* answered 416.
C9_AsClaimed ==
    \A r \in Reqs :
        /\ BodyRejected(r) => reply[r].status = 416
        /\ (BodyAccepted(r) /\ pc[r] = "done") => reply[r].status = 200

\* C9: a POST whose body is no Question is answered by return_error with 404
\* "Route not found" and the map is not modified; a body that is one is
\* answered 200 once it has been inserted.
C9_BodyRejected404 ==
    /\ [](\A r \in Reqs :
            /\ BodyRejected(r) =>
                 (pc[r] = "done" /\ reply[r] = [status |-> 404, text |-> <<"Route not found">>])
            /\ (BodyAccepted(r) /\ pc[r] = "done") =>
                 reply[r] = [status |-> 200, text |-> <<"Question added">>])
    /\ [][\A r \in Reqs :
            /\ (pc[r] = "idle" /\ BodyRejected(r)') =>
                 UNCHANGED <<questions, readers, writer, waiters>>
            /\ Inserts(r) => (BodyAccepted(r) /\ EntryOf(question[r]) \in Entries(questions'))
            /\ (BodyAccepted(r) /\ reply[r] = NoReply /\ reply'[r] # NoReply) =>
                 (pc[r] = "unlock" /\ EntryOf(question[r]) \in Entries(questions))
         ]_vars

\* A body without title was turned away and a body with tags was added.
C9_Witness ==
    /\ \E r \in Reqs : BodyRejected(r) /\ reply[r].status = 404
    /\ \E r \in Reqs : /\ BodyAccepted(r) /\ reply[r].status = 200
                       /\ "tags" \in DOMAIN body[r]
                       /\ EntryOf(question[r]) \in Entries(questions)

\* --------------------------------------------------------------------- C10

\* C10: the read guard is dropped before the slice is taken: a request at the
\* slice, or faulted there, neither holds nor waits for the lock; the slice
\* step leaves the map and the lock as they were; and after a fault every
\* other request that has arrived still gets the lock (it leaves its wait
\* with the guard in hand, it inserts under the write guard) and comes to its
\* end.
Faulted == \E r \in Reqs : pc[r] = "panicked"
C10_FaultOutsideLock ==
    /\ [](\A r \in Reqs : pc[r] \in {"slice", "panicked"} => (~HoldsGuard(r) /\ ~Queued(r)))
    /\ [][\A r \in Reqs :
            /\ Slices(r) => UNCHANGED <<questions, readers, writer, waiters>>
            /\ (Faulted /\ pc[r] = "wait" /\ pc'[r] # "wait") => HoldsGuard(r)'
            /\ (Faulted /\ Inserts(r)) => writer = r
         ]_vars
    /\ (Faulted /\ Pending # {}) ~> (Pending = {})

\* After a fault, a request that arrived later holds the write guard and
\* another waits for the lock.
C10_Witness ==
    \E r, x, y \in Reqs :
        /\ pc[r] = "panicked"
        /\ x > r /\ writer = x
        /\ y > r /\ pc[y] = "wait"

====
